---- MODULE Spec2Model ----
(***************************************************************************)
(* Model of app.py, the Streamlit front-end code generator.                *)
(*                                                                         *)
(* Text is modelled as a sequence of one-character strings, so that        *)
(* str.split, str.strip and the unpacking of section.split("\n", 1) are    *)
(* computed character by character as Python computes them.  The archive  *)
(* is the ZipFile's member list: writestr appends a member, also when a    *)
(* member of that name is already there.                                   *)
(***************************************************************************)
EXTENDS Integers, Sequences, FiniteSets, TLC

VARIABLES
    generated_code,       \* st.session_state.generated_code
    fine_tuned_code,      \* st.session_state.fine_tuned_code
    requirements_prompt,  \* value of the requirements text area in the last run
    framework,            \* value of the framework select box in the last run
    clicked,              \* the button the last script run handled
    chat_completion,      \* result of the completion call of the last run
    messages,             \* st.warning / st.error calls of the last run, in order
    live_preview,         \* the three texts inlined into complete_html, or <<>>
    zip_buffer,           \* members of the archive built in the last run
    offered,              \* the last run displayed st.download_button
    succeeded             \* history: some Generate stored a non-empty response

vars == <<generated_code, fine_tuned_code, requirements_prompt, framework,
          clicked, chat_completion, messages, live_preview, zip_buffer,
          offered, succeeded>>

-----------------------------------------------------------------------------
(* Bounds *)

MaxSections == 3

MaxReplySections == 1

-----------------------------------------------------------------------------
(* Text literals *)

NL == "\n"

Delim == <<"#","#","#"," ","F","I","L","E",":"," ">>

\* The grave accent (U+0060) cannot be written in a string of this language;
\* the token below stands for that one character.
Backtick == "BACKTICK"

Fence == <<Backtick, Backtick, Backtick>>

index_html == <<"i","n","d","e","x",".","h","t","m","l">>

styles_css == <<"s","t","y","l","e","s",".","c","s","s">>

script_js == <<"s","c","r","i","p","t",".","j","s">>

README_md == <<"R","E","A","D","M","E",".","m","d">>

Frameworks == {"React", "HTML/CSS/JavaScript", "Angular"}

\* The ASCII white space that str.strip() removes and that the inputs use.
Whitespace == {" ", NL, "\t", "\r"}

-----------------------------------------------------------------------------
(* Python string operations *)

RECURSIVE LStrip(_, _)
LStrip(s, chars) ==
    IF s # <<>> /\ Head(s) \in chars THEN LStrip(Tail(s), chars) ELSE s

RECURSIVE RStrip(_, _)
RStrip(s, chars) ==
    IF s # <<>> /\ s[Len(s)] \in chars
    THEN RStrip(SubSeq(s, 1, Len(s) - 1), chars)
    ELSE s

\* str.strip(chars): removes every leading and trailing character of the set.
Strip(s, chars) == RStrip(LStrip(s, chars), chars)

\* str.find(sep, from): first index at or after from where sep occurs, 0 if none.
RECURSIVE Find(_, _, _)
Find(s, sep, from) ==
    IF from + Len(sep) - 1 > Len(s) THEN 0
    ELSE IF SubSeq(s, from, from + Len(sep) - 1) = sep THEN from
    ELSE Find(s, sep, from + 1)

\* str.split(sep): the pieces between the non-overlapping occurrences of sep,
\* found left to right; always at least one piece.
RECURSIVE Split(_, _)
Split(s, sep) ==
    LET i == Find(s, sep, 1) IN
    IF i = 0 THEN <<s>>
    ELSE <<SubSeq(s, 1, i - 1)>> \o Split(SubSeq(s, i + Len(sep), Len(s)), sep)

\* str.split(sep, 1): one piece when sep does not occur, else two.
SplitOnce(s, sep) ==
    LET i == Find(s, sep, 1) IN
    IF i = 0 THEN <<s>>
    ELSE <<SubSeq(s, 1, i - 1), SubSeq(s, i + Len(sep), Len(s))>>

\* s[:n]
Take(s, n) == SubSeq(s, 1, IF Len(s) < n THEN Len(s) ELSE n)

-----------------------------------------------------------------------------
(* Messages shown by st.warning, st.sidebar.warning and st.error *)

Message(level, text, arg) == [level |-> level, text |-> text, arg |-> arg]

\* st.warning(f"Unexpected format in section: {section[:30]}...")
SectionWarning(section) ==
    Message("warning", "Unexpected format in section", Take(section, 30))

RequirementsWarning ==
    Message("warning", "Please enter the website requirements prompt.", <<>>)

EmptyResponseError ==
    Message("error", "The API returned an empty response. Please try again.", <<>>)

GenerateError ==
    Message("error", "An error occurred while generating code", <<>>)

PreviewWarning ==
    Message("warning", "Unable to extract HTML, CSS, and JS for live preview.", <<>>)

ZipError == Message("error", "Error while creating ZIP file", <<>>)

GenerateFirstWarning ==
    Message("warning", "Generate the code first before downloading.", <<>>)

-----------------------------------------------------------------------------
(* create_zip_file *)

\* The ZipFile and the UI while create_zip_file runs: the members written so
\* far, the messages shown so far, and whether an exception has left the try.
NewZip == [filelist |-> <<>>, messages |-> <<>>, raised |-> FALSE]

\* zf.namelist()
NameList(zf) == {zf.filelist[i].filename : i \in 1..Len(zf.filelist)}

\* zf.writestr(name, data) appends a member; it does not replace a member of
\* the same name.  With an empty name it evaluates filename[-1]: CPython
\* releases that index the name raise IndexError, releases that test
\* filename.endswith('/') write the member.  emptyNameRaises is the release's
\* behaviour.
WriteStr(zf, name, data, emptyNameRaises) ==
    IF name = <<>> /\ emptyNameRaises
    THEN [zf EXCEPT !.raised = TRUE]
    ELSE [zf EXCEPT !.filelist = Append(@, [filename |-> name, data |-> data])]

\* The loop over the sections, the same in the three framework branches.  A
\* ValueError of the unpacking is caught inside the loop; any other exception
\* leaves the loop and the branch.
RECURSIVE ZipSections(_, _, _, _)
ZipSections(sections, i, zf, emptyNameRaises) ==
    IF i > Len(sections) \/ zf.raised THEN zf
    ELSE
      LET section == sections[i] IN
      IF Strip(section, Whitespace) = <<>>
      THEN ZipSections(sections, i + 1, zf, emptyNameRaises)
      ELSE
        LET parts == SplitOnce(section, <<NL>>) IN
        IF Len(parts) < 2
        THEN ZipSections(sections, i + 1,
                 [zf EXCEPT !.messages = Append(@, SectionWarning(section))],
                 emptyNameRaises)
        ELSE
          LET file_name    == parts[1]
              file_content == Strip(Strip(parts[2], {Backtick}), Whitespace)
              file_path    == Strip(file_name, Whitespace)
          IN  ZipSections(sections, i + 1,
                  WriteStr(zf, file_path, file_content, emptyNameRaises),
                  emptyNameRaises)

required_files(fw) ==
    CASE fw = "React" ->
           << <<"p","u","b","l","i","c","/","i","n","d","e","x",".","h","t","m","l">>,
              <<"s","r","c","/","A","p","p",".","j","s">>,
              <<"s","r","c","/","i","n","d","e","x",".","j","s">>,
              <<"p","a","c","k","a","g","e",".","j","s","o","n">> >>
      [] fw = "HTML/CSS/JavaScript" ->
           << index_html, styles_css, script_js >>
      [] fw = "Angular" ->
           << <<"a","n","g","u","l","a","r",".","j","s","o","n">>,
              <<"s","r","c","/","a","p","p","/","a","p","p",".","m","o","d","u","l","e",".","t","s">>,
              <<"s","r","c","/","a","p","p","/","a","p","p",".","c","o","m","p","o","n","e","n","t",".","t","s">>,
              <<"s","r","c","/","a","p","p","/","a","p","p",".","c","o","m","p","o","n","e","n","t",".","h","t","m","l">> >>

ContentMissing == <<" ","c","o","n","t","e","n","t"," ","m","i","s","s","i","n","g">>

EndsWith(s, suffix) ==
    /\ Len(s) >= Len(suffix)
    /\ SubSeq(s, Len(s) - Len(suffix) + 1, Len(s)) = suffix

\* Mutant of Placeholder: the comment syntax follows the file's extension
\* instead of the framework branch.
Placeholder_ByKind(fw, req_file) ==
    IF EndsWith(req_file, <<".","c","s","s">>)
    THEN <<"/","*"," ">> \o req_file \o ContentMissing \o <<" ","*","/">>
    ELSE <<"/","/"," ">> \o req_file \o ContentMissing

\* f"// {req_file} content missing" in the React and Angular branches,
\* f"/* {req_file} content missing */" in the HTML/CSS/JavaScript branch.
Placeholder(fw, req_file) ==
    IF fw = "HTML/CSS/JavaScript"
    THEN <<"/","*"," ">> \o req_file \o ContentMissing \o <<" ","*","/">>
    ELSE <<"/","/"," ">> \o req_file \o ContentMissing

RECURSIVE AddRequired(_, _, _)
AddRequired(fw, i, zf) ==
    IF i > Len(required_files(fw)) THEN zf
    ELSE
      LET req_file == required_files(fw)[i] IN
      IF req_file \notin NameList(zf)
      THEN AddRequired(fw, i + 1,
               WriteStr(zf, req_file, Placeholder(fw, req_file), FALSE))
      ELSE AddRequired(fw, i + 1, zf)

\* The README text: its first line names the framework, the rest is fixed.
readme_content(fw) == <<"# Generated ", fw, " Frontend", "## Setup Instructions">>

\* create_zip_file(code, framework): the members of the returned buffer and
\* the messages shown while it was built.
create_zip_file(code, fw, emptyNameRaises) ==
    LET sections == Split(code, Delim)
        written  == ZipSections(sections, 1, NewZip, emptyNameRaises)
    IN  IF written.raised
        THEN [written EXCEPT !.messages = Append(@, ZipError)]
        ELSE WriteStr(AddRequired(fw, 1, written), README_md,
                      readme_content(fw), FALSE)

-----------------------------------------------------------------------------
(* Live preview of the Generate Code handler *)

NewPreview == [html_code |-> <<>>, css_code |-> <<>>, js_code |-> <<>>,
               messages |-> <<>>]

RECURSIVE PreviewSections(_, _, _)
PreviewSections(sections, i, pv) ==
    IF i > Len(sections) THEN pv
    ELSE
      LET section == sections[i] IN
      IF Strip(section, Whitespace) = <<>>
      THEN PreviewSections(sections, i + 1, pv)
      ELSE
        LET parts == SplitOnce(section, <<NL>>) IN
        IF Len(parts) < 2
        THEN PreviewSections(sections, i + 1,
                 [pv EXCEPT !.messages = Append(@, SectionWarning(section))])
        ELSE
          LET file_name    == Strip(parts[1], Whitespace)
              file_content == Strip(Strip(parts[2], {Backtick}), Whitespace)
          IN  PreviewSections(sections, i + 1,
                  IF file_name = index_html
                  THEN [pv EXCEPT !.html_code = file_content]
                  ELSE IF file_name = styles_css
                  THEN [pv EXCEPT !.css_code = file_content]
                  ELSE IF file_name = script_js
                  THEN [pv EXCEPT !.js_code = file_content]
                  ELSE pv)

\* if html_code and css_code and js_code
AllPartsExtracted(pv) ==
    pv.html_code # <<>> /\ pv.css_code # <<>> /\ pv.js_code # <<>>

\* The part of the handler after the session update: the document rendered by
\* st.components.v1.html (its three inlined texts, in the order of the
\* template) or <<>>, and the messages shown.
LivePreview(code, fw) ==
    IF fw = "HTML/CSS/JavaScript"
    THEN LET pv == PreviewSections(Split(code, Delim), 1, NewPreview) IN
         IF AllPartsExtracted(pv)
         THEN [complete_html |-> <<pv.css_code, pv.html_code, pv.js_code>>,
               messages |-> pv.messages]
         ELSE [complete_html |-> <<>>,
               messages |-> Append(pv.messages, PreviewWarning)]
    ELSE [complete_html |-> <<>>, messages |-> <<>>]

-----------------------------------------------------------------------------
(* Inputs: the texts the completion service can return *)

\* Text in front of the first section header.
Preambles == { <<>>, <<" ",NL>>, <<"h","i">>, <<"h","i",NL,"x",NL>> }

\* Texts that follow a section header.
Fragments ==
    { index_html \o <<NL>> \o Fence \o <<"h","t","m","l",NL,"<","p",">",NL>> \o Fence \o <<NL>>,
      styles_css \o <<NL>> \o Fence \o <<"c","s","s",NL,"p","{","}",NL>> \o Fence \o <<NL>>,
      script_js \o <<NL>> \o Fence \o <<"j","s",NL,"f","(",")",NL>> \o Fence \o <<NL>>,
      script_js \o <<NL>> \o Fence \o <<NL>> \o Fence \o <<NL>>,
      README_md \o <<NL,"r",NL>>,
      <<"b","a","d">>,
      <<>>,
      <<" ",NL,"x",NL>> }

RECURSIVE JoinSections(_, _)
JoinSections(frags, i) ==
    IF i > Len(frags) THEN <<>>
    ELSE Delim \o frags[i] \o JoinSections(frags, i + 1)

\* Every text made of one of the preambles and at most n of the fragments,
\* each behind a section header.
Responses(preambles, fragments, n) ==
    { pre \o JoinSections(frags, 1) :
        pre \in preambles, frags \in UNION { [1..k -> fragments] : k \in 0..n } }

\* The preambles and fragments of the texts the session is run with.
ReplyPreambles == { <<>>, <<" ",NL>>, <<"h","i",NL,"x",NL>> }

ReplyFragments ==
    { index_html \o <<NL>> \o Fence \o <<"h","t","m","l",NL,"<","p",">",NL>> \o Fence \o <<NL>>,
      script_js \o <<NL>> \o Fence \o <<NL>> \o Fence \o <<NL>>,
      <<"b","a","d">>,
      <<" ",NL,"x",NL>> }

RequirementTexts == { <<>>, <<" ">>, <<"a"," ","b","l","o","g">> }

NoCall == [called |-> FALSE, raised |-> FALSE, content |-> <<>>]

\* client.chat.completions.create either raises or returns a text.
ApiResults(n) ==
    { [called |-> TRUE, raised |-> TRUE, content |-> <<>>] } \cup
    { [called |-> TRUE, raised |-> FALSE, content |-> r] :
        r \in Responses(ReplyPreambles, ReplyFragments, n) }

-----------------------------------------------------------------------------
(* The session: one action per script run *)

Init ==
    /\ generated_code = <<>>
    /\ fine_tuned_code = <<>>
    /\ requirements_prompt = <<>>
    /\ framework = "React"
    /\ clicked = "none"
    /\ chat_completion = NoCall
    /\ messages = <<>>
    /\ live_preview = <<>>
    /\ zip_buffer = <<>>
    /\ offered = FALSE
    /\ succeeded = FALSE

\* Mutant of StoreGuard: the response is stored without the emptiness test.
StoreGuard_Always(text) == TRUE

\* if not generated_code: ... else: store
StoreGuard(text) == text # <<>>

\* if st.sidebar.button("Generate Code")
GenerateCode(req, fw, result) ==
    /\ requirements_prompt' = req
    /\ framework' = fw
    /\ clicked' = "generate"
    /\ zip_buffer' = <<>>
    /\ offered' = FALSE
    /\ IF Strip(req, Whitespace) = <<>>
       THEN /\ messages' = <<RequirementsWarning>>
            /\ chat_completion' = NoCall
            /\ live_preview' = <<>>
            /\ UNCHANGED <<generated_code, fine_tuned_code, succeeded>>
       ELSE /\ chat_completion' = result
            /\ IF result.raised
               THEN /\ messages' = <<GenerateError>>
                    /\ live_preview' = <<>>
                    /\ UNCHANGED <<generated_code, fine_tuned_code, succeeded>>
               ELSE LET text == Strip(result.content, Whitespace) IN
                    IF ~StoreGuard(text)
                    THEN /\ messages' = <<EmptyResponseError>>
                         /\ live_preview' = <<>>
                         /\ UNCHANGED <<generated_code, fine_tuned_code, succeeded>>
                    ELSE /\ generated_code' = text
                         /\ fine_tuned_code' = text
                         /\ succeeded' = (succeeded \/ text # <<>>)
                         /\ LET shown == LivePreview(text, fw) IN
                              /\ live_preview' = shown.complete_html
                              /\ messages' = shown.messages

\* Mutant of DownloadGuard: the archive is built without the test of the slot.
DownloadGuard_Missing == TRUE

\* if st.session_state.fine_tuned_code
DownloadGuard == fine_tuned_code # <<>>

\* if st.sidebar.button("Download ZIP")
DownloadZIP(fw, emptyNameRaises) ==
    /\ framework' = fw
    /\ clicked' = "download"
    /\ chat_completion' = NoCall
    /\ live_preview' = <<>>
    /\ IF DownloadGuard
       THEN LET zf == create_zip_file(generated_code, fw, emptyNameRaises) IN
            /\ zip_buffer' = zf.filelist
            /\ messages' = zf.messages
            /\ offered' = TRUE
       ELSE /\ zip_buffer' = <<>>
            /\ messages' = <<GenerateFirstWarning>>
            /\ offered' = FALSE
    /\ UNCHANGED <<generated_code, fine_tuned_code, requirements_prompt, succeeded>>

\* A script run in which neither button was pressed.
Rerun(req, fw) ==
    /\ requirements_prompt' = req
    /\ framework' = fw
    /\ clicked' = "none"
    /\ chat_completion' = NoCall
    /\ messages' = <<>>
    /\ live_preview' = <<>>
    /\ zip_buffer' = <<>>
    /\ offered' = FALSE
    /\ UNCHANGED <<generated_code, fine_tuned_code, succeeded>>

Next ==
    \/ \E req \in RequirementTexts, fw \in Frameworks :
          \* no completion call is made for blank requirements, so no result
          \* is drawn for them
          \E result \in IF Strip(req, Whitespace) = <<>>
                        THEN {NoCall} ELSE ApiResults(MaxReplySections) :
             GenerateCode(req, fw, result)
    \/ \E fw \in Frameworks, emptyNameRaises \in BOOLEAN :
          DownloadZIP(fw, emptyNameRaises)
    \/ \E req \in RequirementTexts, fw \in Frameworks : Rerun(req, fw)

Spec == Init /\ [][Next]_vars

-----------------------------------------------------------------------------
(* The extraction and the archive applied to every text a session can hold *)

\* The texts a Generate can store: the trimmed responses that are not empty.
StoredTexts ==
    { Strip(r, Whitespace) : r \in Responses(Preambles, Fragments, MaxSections) }
      \ { <<>> }

InitFn ==
    /\ generated_code \in StoredTexts
    /\ fine_tuned_code = generated_code
    /\ requirements_prompt = <<>>
    /\ framework \in Frameworks
    /\ clicked = "none"
    /\ chat_completion = NoCall
    /\ messages = <<>>
    /\ live_preview = <<>>
    /\ zip_buffer = <<>>
    /\ offered = FALSE
    /\ succeeded = TRUE

\* The live preview of the stored text, as the handler computes it after a
\* successful completion.
ApplyLivePreview ==
    /\ clicked' = "generate"
    /\ LET shown == LivePreview(generated_code, framework) IN
         /\ live_preview' = shown.complete_html
         /\ messages' = shown.messages
    /\ zip_buffer' = <<>>
    /\ offered' = FALSE
    /\ UNCHANGED <<generated_code, fine_tuned_code, requirements_prompt,
                   framework, chat_completion, succeeded>>

\* create_zip_file(generated_code, framework), as Download ZIP calls it.
ApplyCreateZip(emptyNameRaises) ==
    /\ clicked' = "download"
    /\ LET zf == create_zip_file(generated_code, framework, emptyNameRaises) IN
         /\ zip_buffer' = zf.filelist
         /\ messages' = zf.messages
    /\ offered' = TRUE
    /\ live_preview' = <<>>
    /\ UNCHANGED <<generated_code, fine_tuned_code, requirements_prompt,
                   framework, chat_completion, succeeded>>

NextFn ==
    \/ ApplyLivePreview
    \/ \E emptyNameRaises \in BOOLEAN : ApplyCreateZip(emptyNameRaises)

SpecFn == InitFn /\ [][NextFn]_vars

-----------------------------------------------------------------------------
(* Properties of the session *)

\* The last run was a Generate that ended in an input error (blank
\* requirements) or an upstream error (the call raised, or its text is empty
\* after trimming).
FailedGenerate ==
    /\ clicked = "generate"
    /\ \/ Strip(requirements_prompt, Whitespace) = <<>>
       \/ chat_completion.raised
       \/ Strip(chat_completion.content, Whitespace) = <<>>

\* C4: a Generate that fails with an input error or an upstream error leaves
\* generated_code and fine_tuned_code as they were before the run, and a
\* Generate with blank requirements issues no completion call.
C4_FailedGenerateKeepsSession ==
    [][ FailedGenerate' =>
          /\ generated_code' = generated_code
          /\ fine_tuned_code' = fine_tuned_code
          /\ (Strip(requirements_prompt', Whitespace) = <<>>
                => ~chat_completion'.called) ]_vars

\* C4 witness: an upstream error after an earlier successful Generate, with
\* the earlier text still in both slots.
C4_Witness ==
    /\ FailedGenerate
    /\ chat_completion.called
    /\ generated_code # <<>>
    /\ fine_tuned_code = generated_code

\* C10: Download ZIP builds and offers an archive only if an earlier Generate
\* of the session stored a non-empty text; otherwise it shows the warning and
\* builds nothing.  The two slots are equal in every reachable state.
C10_DownloadOnlyAfterGenerate ==
    /\ generated_code = fine_tuned_code
    /\ clicked = "download" =>
         /\ offered => succeeded
         /\ ~succeeded =>
              /\ ~offered
              /\ zip_buffer = <<>>
              /\ messages = <<GenerateFirstWarning>>

\* C10 witness: an archive offered by Download ZIP after a successful Generate.
C10_Witness ==
    /\ clicked = "download"
    /\ offered
    /\ succeeded
    /\ zip_buffer # <<>>

-----------------------------------------------------------------------------
(* Properties of the extraction and of the archive *)

\* The last run built an archive from generated_code.
ArchiveBuilt == clicked = "download" /\ offered

\* The last run was a Generate that stored its response.
GenerateStored ==
    /\ clicked = "generate"
    /\ \A i \in 1..Len(messages) :
         messages[i] \notin {RequirementsWarning, EmptyResponseError, GenerateError}

\* The fragments of a text that follow a section header.
FragmentsOf(code) == Tail(Split(code, Delim))

HeaderOf(fragment) == Strip(SplitOnce(fragment, <<NL>>)[1], Whitespace)

HasNewline(fragment) == Find(fragment, <<NL>>, 1) # 0

BodyOf(fragment) == SplitOnce(fragment, <<NL>>)[2]

\* The members the section loop writes for a text.
SectionMembers(code) == ZipSections(Split(code, Delim), 1, NewZip, FALSE).filelist

\* The required files of a framework that a member list does not name.
MissingRequired(fw, members) ==
    { k \in 1..Len(required_files(fw)) :
        \A i \in 1..Len(members) : members[i].filename # required_files(fw)[k] }

\* C1: a response without the delimiter yields no entry: the archive is the
\* one built for the empty response (placeholders and README.md only), no live
\* preview is assembled from it, and no exception is reported.
C1_NoDelimiterYieldsNothing ==
    Find(generated_code, Delim, 1) = 0 =>
      /\ ArchiveBuilt =>
           /\ zip_buffer = create_zip_file(<<>>, framework, FALSE).filelist
           /\ \A i \in 1..Len(messages) : messages[i] # ZipError
      /\ GenerateStored => live_preview = <<>>

\* A body that is one fenced code block, after trimming.
IsFenced(body) ==
    LET b == Strip(body, Whitespace) IN
    /\ Len(b) >= 2 * Len(Fence)
    /\ SubSeq(b, 1, Len(Fence)) = Fence
    /\ SubSeq(b, Len(b) - Len(Fence) + 1, Len(b)) = Fence
    /\ HasNewline(b)

\* The text between the opening fence line (fence and language tag) and the
\* closing fence of a fenced body, trimmed.
FencedText(body) ==
    LET b     == Strip(body, Whitespace)
        inner == SubSeq(b, 1, Len(b) - Len(Fence))
    IN  Strip(SplitOnce(inner, <<NL>>)[2], Whitespace)

\* No preamble, at least one section, every section a non-empty header line
\* followed by a fenced code block, no path twice.
WellFormed(code) ==
    LET sections == Split(code, Delim)
        frags    == Tail(sections)
    IN  /\ sections[1] = <<>>
        /\ frags # <<>>
        /\ \A i \in 1..Len(frags) :
             /\ HasNewline(frags[i])
             /\ HeaderOf(frags[i]) # <<>>
             /\ IsFenced(BodyOf(frags[i]))
        /\ \A i, j \in 1..Len(frags) :
             i # j => HeaderOf(frags[i]) # HeaderOf(frags[j])

\* C2: for a well-formed response with N section headers the archive holds
\* exactly N section entries (with the placeholders of the missing required
\* files and README.md after them); entry i has the trimmed header of section
\* i as its path and the text inside the fence of section i as its content,
\* without fence markers, language tag or surrounding white space.
C2_WellFormedSectionsExtracted ==
    (ArchiveBuilt /\ WellFormed(generated_code)) =>
      LET frags == FragmentsOf(generated_code)
          N     == Len(frags)
      IN  /\ Len(zip_buffer) >= N
          /\ \A i \in 1..N :
               /\ zip_buffer[i].filename = HeaderOf(frags[i])
               /\ zip_buffer[i].data = FencedText(BodyOf(frags[i]))
          /\ Len(zip_buffer) =
               N + Cardinality(MissingRequired(framework, SubSeq(zip_buffer, 1, N))) + 1

\* C3: an archive built without an error message holds every extracted entry with its content, a member for
\* every required file of the framework, the placeholder for exactly the
\* required files that were not extracted, and exactly one README.md.
C3_ArchiveRoundTrip ==
    (ArchiveBuilt /\ \A i \in 1..Len(messages) : messages[i] # ZipError) =>
      LET entries == SectionMembers(generated_code)
          missing == MissingRequired(framework, entries)
      IN  /\ \A i \in 1..Len(entries) :
               \E j \in 1..Len(zip_buffer) : zip_buffer[j] = entries[i]
          /\ \A k \in 1..Len(required_files(framework)) :
               LET req == required_files(framework)[k] IN
               Cardinality({ j \in 1..Len(zip_buffer) :
                               /\ zip_buffer[j].filename = req
                               /\ zip_buffer[j].data = Placeholder(framework, req) })
                 = IF k \in missing THEN 1 ELSE 0
          /\ Cardinality({ j \in 1..Len(zip_buffer) :
                             zip_buffer[j].filename = README_md }) = 1
          /\ Len(zip_buffer) = Len(entries) + Cardinality(missing) + 1

\* The text without the fragments (and their headers) that have no newline.
WithoutMalformed(code) ==
    LET sections == Split(code, Delim) IN
    sections[1] \o JoinSections(SelectSeq(Tail(sections), HasNewline), 1)

NumMalformed(code) ==
    LET frags == FragmentsOf(code) IN
    Cardinality({ i \in 1..Len(frags) : ~HasNewline(frags[i]) })

\* C5: every fragment after a delimiter that has no newline is skipped with
\* exactly one warning, the run is not aborted, and the archive and the live
\* preview are those of the response without these fragments.
C5_MalformedFragmentSkipped ==
    NumMalformed(generated_code) > 0 =>
      /\ ArchiveBuilt =>
           \E emptyNameRaises \in BOOLEAN :
             LET ref == create_zip_file(WithoutMalformed(generated_code),
                                        framework, emptyNameRaises)
             IN  /\ zip_buffer = ref.filelist
                 /\ Len(messages) = Len(ref.messages) + NumMalformed(generated_code)
      /\ (GenerateStored /\ framework = "HTML/CSS/JavaScript") =>
           LET ref == LivePreview(WithoutMalformed(generated_code), framework)
           IN  /\ live_preview = ref.complete_html
               /\ Len(messages) = Len(ref.messages) + NumMalformed(generated_code)

\* The paths of the sections of a text that have a header line and a body.
SectionPaths(code) ==
    LET frags == FragmentsOf(code) IN
    { HeaderOf(frags[i]) : i \in { k \in 1..Len(frags) : HasNewline(frags[k]) } }

\* C6: for HTML/CSS/JavaScript the live preview is assembled exactly when
\* index.html, styles.css and script.js are all among the extracted paths, and
\* the warning is shown when it is not assembled; for the other frameworks no
\* preview is assembled.
C6_PreviewIffAllThreePresent ==
    GenerateStored =>
      IF framework = "HTML/CSS/JavaScript"
      THEN /\ live_preview # <<>> <=>
                {index_html, styles_css, script_js} \subseteq SectionPaths(generated_code)
           /\ live_preview = <<>> =>
                \E i \in 1..Len(messages) : messages[i] = PreviewWarning
      ELSE live_preview = <<>>

\* Two sections of the text carry the same non-empty path.
HasDuplicatePath(code) ==
    LET frags == FragmentsOf(code) IN
    \E i, j \in 1..Len(frags) :
       /\ i < j
       /\ HasNewline(frags[i]) /\ HasNewline(frags[j])
       /\ HeaderOf(frags[i]) # <<>>
       /\ HeaderOf(frags[i]) = HeaderOf(frags[j])

\* C7: when two sections carry the same path the archive holds one member of
\* that name, with the content of the later section; the member names of the
\* archive are pairwise distinct.
C7_DuplicatePathLastWins ==
    (ArchiveBuilt /\ HasDuplicatePath(generated_code)) =>
      /\ \A i, j \in 1..Len(zip_buffer) :
           i # j => zip_buffer[i].filename # zip_buffer[j].filename
      /\ LET entries == SectionMembers(generated_code) IN
         \A i, j \in 1..Len(entries) :
            (i < j /\ entries[i].filename = entries[j].filename
                   /\ entries[i].data # entries[j].data) =>
              \A k \in 1..Len(zip_buffer) : zip_buffer[k] # entries[i]

\* The placeholder texts the file's own kind allows: a // comment for a script
\* file, a /* */ comment for a stylesheet, either for any other file.
KindPlaceholders(req_file) ==
    LET line  == <<"/","/"," ">> \o req_file \o ContentMissing
        block == <<"/","*"," ">> \o req_file \o ContentMissing \o <<" ","*","/">>
    IN  IF EndsWith(req_file, <<".","j","s">>) \/ EndsWith(req_file, <<".","t","s">>)
        THEN {line}
        ELSE IF EndsWith(req_file, <<".","c","s","s">>)
        THEN {block}
        ELSE {line, block}

\* C8: in an archive built without an error message, the placeholder of every
\* missing required file uses the comment syntax of the file's own kind,
\* whichever framework is selected.
C8_PlaceholderSyntaxByFileKind ==
    (ArchiveBuilt /\ \A i \in 1..Len(messages) : messages[i] # ZipError) =>
      \A k \in MissingRequired(framework, SectionMembers(generated_code)) :
         \E j \in 1..Len(zip_buffer) :
            /\ zip_buffer[j].filename = required_files(framework)[k]
            /\ zip_buffer[j].data \in KindPlaceholders(required_files(framework)[k])

\* C9: no member of the archive has a name that is empty after trimming.
C9_NoEmptyPath ==
    ArchiveBuilt =>
      \A i \in 1..Len(zip_buffer) :
         Strip(zip_buffer[i].filename, Whitespace) # <<>>

\* The placeholder text of the selected framework's branch.
FrameworkPlaceholder(fw, req_file) ==
    IF fw \in {"React", "Angular"}
    THEN <<"/","/"," ">> \o req_file \o ContentMissing
    ELSE <<"/","*"," ">> \o req_file \o ContentMissing \o <<" ","*","/">>

\* C8 as amended: the placeholder of every missing required file uses the
\* comment syntax of the selected framework, // for React and Angular and
\* /* */ for HTML/CSS/JavaScript, whatever the kind of the file; an archive
\* built without an error message holds one for each missing required file.
C8_PlaceholderSyntaxByFramework ==
    ArchiveBuilt =>
      \A k \in MissingRequired(framework, SectionMembers(generated_code)) :
         LET req == required_files(framework)[k] IN
         /\ \A j \in 1..Len(zip_buffer) :
              zip_buffer[j].filename = req =>
                zip_buffer[j].data = FrameworkPlaceholder(framework, req)
         /\ (\A i \in 1..Len(messages) : messages[i] # ZipError) =>
              \E j \in 1..Len(zip_buffer) : zip_buffer[j].filename = req

\* C8 witness: an archive whose placeholder for the script file script.js is
\* the /* */ comment of the HTML/CSS/JavaScript branch.
C8_Witness ==
    /\ ArchiveBuilt
    /\ framework = "HTML/CSS/JavaScript"
    /\ \E j \in 1..Len(zip_buffer) :
         /\ zip_buffer[j].filename = script_js
         /\ zip_buffer[j].data =
              <<"/","*"," ">> \o script_js \o ContentMissing \o <<" ","*","/">>

====
